---- MODULE Spec2Model ----
(***************************************************************************)
(* A model of spotify_colours: the pattern generator and the palette       *)
(* extractor of src/src/colours.py and the polling loop with its rotation  *)
(* state of src/scripts/poll_playback.py.                                  *)
(*                                                                         *)
(* Python strings are TLA+ strings, Python lists are sequences, None is    *)
(* the value None.  A call's outcome is a record [kind, value, msg]: kind  *)
(* "ok" with the returned value, or the name of the exception raised with  *)
(* msg the text str() gives for it.                                        *)
(***************************************************************************)
EXTENDS Integers, Sequences, FiniteSets, TLC

VARIABLES
    gp_colors, gp_length, gp_mode, gp_result,   \* one generate_pattern call
    ex_id, ex_env, ex_result,                   \* one extract_top4 call
    cache,                                      \* files in the image cache directory
    pc, loops, prev_art, rotation, base,        \* run_loop and its _RotationState
    obs, snapshot                               \* what the last poll cycle did and wrote

vars == <<gp_colors, gp_length, gp_mode, gp_result, ex_id, ex_env, ex_result,
          cache, pc, loops, prev_art, rotation, base, obs, snapshot>>

gp_vars == <<gp_colors, gp_length, gp_mode, gp_result>>
ex_vars == <<ex_id, ex_env, ex_result>>
loop_vars == <<pc, loops, prev_art, rotation, base, obs, snapshot>>

None == "None"

\* the fields of the _RotationState before line 50 creates it
Unbound == "unbound"

Ok(v) == [kind |-> "ok", value |-> v, msg |-> ""]
Raise(e, m) == [kind |-> e, value |-> <<>>, msg |-> m]
NotCalled == [kind |-> "not_called", value |-> <<>>, msg |-> ""]

(***************************************************************************)
(* Bounds of the model.                                                    *)
(***************************************************************************)
MaxPaletteLen == 5
MaxLength == 17

(***************************************************************************)
(* generate_pattern                                                        *)
(***************************************************************************)

\* colours.py:170  `not colors or len(colors) < 4`
TooFewColours(colors) == colors = <<>> \/ Len(colors) < 4

\* colours.py:172  base = colors[:4]
Base(colors) == SubSeq(colors, 1, 4)

\* base[::-1]
Reverse(s) == [i \in 1..Len(s) |-> s[Len(s) + 1 - i]]

\* colours.py:181  mirror = base + base[::-1]
MirrorCycleElided(b) == b \o SubSeq(Reverse(b), 2, 3)
MirrorCycle(b) == b \o Reverse(b)

\* colours.py:176-179 and 183-186: the for loop over the cycle, from its k-th
\* element on, which breaks as soon as seq holds `length` elements.
RECURSIVE ForLoopNoBreak(_, _, _, _)
ForLoopNoBreak(cyc, length, seq, k) ==
    IF k > Len(cyc) THEN seq
    ELSE ForLoopNoBreak(cyc, length, Append(seq, cyc[k]), k + 1)
RECURSIVE ForLoop(_, _, _, _)
ForLoop(cyc, length, seq, k) ==
    IF k > Len(cyc) THEN seq
    ELSE IF Len(seq) >= length THEN seq
    ELSE ForLoop(cyc, length, Append(seq, cyc[k]), k + 1)

\* colours.py:175 and 182: while len(seq) < length: for c in cyc: ...
RECURSIVE CycleLoopSkipFirst(_, _, _)
CycleLoopSkipFirst(cyc, length, seq) ==
    IF Len(seq) < length
    THEN CycleLoopSkipFirst(cyc, length, ForLoop(cyc, length, seq, 2))
    ELSE seq
RECURSIVE CycleLoop(_, _, _)
CycleLoop(cyc, length, seq) ==
    IF Len(seq) < length
    THEN CycleLoop(cyc, length, ForLoop(cyc, length, seq, 1))
    ELSE seq

\* colours.py:188-191: i = 0; while len(seq) < length: seq.append(base[i % 4]); i += 1
RECURSIVE RotateLoopShifted(_, _, _, _)
RotateLoopShifted(b, length, seq, i) ==
    IF Len(seq) < length
    THEN RotateLoopShifted(b, length, Append(seq, b[((i + 1) % 4) + 1]), i + 1)
    ELSE seq
RECURSIVE RotateLoop(_, _, _, _)
RotateLoop(b, length, seq, i) ==
    IF Len(seq) < length
    THEN RotateLoop(b, length, Append(seq, b[(i % 4) + 1]), i + 1)
    ELSE seq

\* colours.py:171 and 193: the texts of the two ValueErrors
BadColours == "colors must be a list of 4 hex strings"
UnknownMode(mode) == "unknown mode: " \o mode

\* colours.py:162-194
generate_pattern(colors, length, mode) ==
    IF TooFewColours(colors) THEN Raise("ValueError", BadColours)
    ELSE IF mode = "repeat" THEN Ok(CycleLoop(Base(colors), length, <<>>))
    ELSE IF mode = "mirror" THEN Ok(CycleLoop(MirrorCycle(Base(colors)), length, <<>>))
    ELSE IF mode = "rotate" THEN Ok(RotateLoop(Base(colors), length, <<>>, 0))
    ELSE Raise("ValueError", UnknownMode(mode))

(***************************************************************************)
(* The inputs of the generate_pattern calls checked: the four colours of   *)
(* tests/test_pattern.py in palettes of 0..MaxPaletteLen entries, every    *)
(* length up to MaxLength, the three modes and an unknown one.             *)
(***************************************************************************)
PatternColours == {"#010203", "#0A0B0C", "#AABBCC", "#112233"}
Palettes == UNION {[1..n -> PatternColours] : n \in 0..MaxPaletteLen}
Lengths == 0..MaxLength
Modes == {"repeat", "mirror", "rotate"}
ModeInputs == Modes \cup {"bogus"}

(***************************************************************************)
(* Palette extraction                                                      *)
(***************************************************************************)
MaxQuant == 4

Min(a, b) == IF a < b THEN a ELSE b
Range(s) == {s[i] : i \in 1..Len(s)}

\* Python's s[a:b] for 0 <= a, 0 <= b on a list or a string
PySlice(s, a, b) == SubSeq(s, a + 1, Min(b, Len(s)))

\* format spec 02X: one byte as two uppercase hex digits
HexUpper == "0123456789ABCDEF"
Hex2Lower(n) == SubSeq("0123456789abcdef", (n \div 16) + 1, (n \div 16) + 1)
                    \o SubSeq("0123456789abcdef", (n % 16) + 1, (n % 16) + 1)
Hex2SmallLetters(n) == Hex2Lower(n)
Hex2(n) == SubSeq(HexUpper, (n \div 16) + 1, (n \div 16) + 1)
               \o SubSeq(HexUpper, (n % 16) + 1, (n % 16) + 1)

\* colours.py:88  hexc = f"#{r:02X}{g:02X}{b:02X}"
RgbHex(rgb) == "#" \o Hex2(rgb[1]) \o Hex2(rgb[2]) \o Hex2(rgb[3])

\* colours.py:18-20
_digest_to_rgb(d) == RgbHex(<<d[1], d[2], d[3]>>)

\* colours.py:111-114 (and the same lines 138-141): the i-th 3-byte group of h
DigestGroup(h, i) ==
    LET start == (i * 3) % Len(h)
        group == PySlice(h, start, start + 3)
    IN  IF Len(group) < 3 THEN PySlice(group \o h, 0, 3) ELSE group

\* colours.py:109-116 (and the same loop at 136-143), h the md5 digest
DigestColours(h) == [i \in 1..4 |-> _digest_to_rgb(DigestGroup(h, i - 1))]

\* hashlib.md5(s.encode("utf-8")).digest() of the identifiers of the model
MD5(s) ==
    CASE s = "https://a/b.png" ->
            <<12, 152, 241, 14, 199, 148, 90, 150, 24, 72, 37, 164, 156, 9, 74, 200>>
      [] s = "http://c" ->
            <<10, 36, 172, 60, 232, 11, 74, 75, 198, 89, 193, 88, 235, 84, 82, 19>>
      [] s = "x" ->
            <<157, 212, 228, 97, 38, 140, 128, 52, 245, 200, 86, 78, 21, 92, 103, 166>>
      [] s = "" ->
            <<212, 29, 140, 217, 143, 0, 178, 4, 233, 128, 9, 152, 236, 248, 66, 126>>
      [] s = "HTTPS://A" ->
            <<82, 209, 127, 101, 126, 135, 26, 112, 243, 98, 87, 49, 83, 3, 252, 184>>

\* hashlib's hexdigest(): the digest in lowercase hex
RECURSIVE HexDigest(_)
HexDigest(h) == IF h = <<>> THEN "" ELSE Hex2Lower(Head(h)) \o HexDigest(Tail(h))

\* str.rfind of a one-character string: the last 0-based index of ch in s, or -1
RECURSIVE RFind(_, _, _)
RFind(s, ch, k) ==
    IF k = 0 THEN -1
    ELSE IF SubSeq(s, k, k) = ch THEN k - 1
    ELSE RFind(s, ch, k - 1)

\* pathlib's Path(url).name: the path is split at "/", empty components and
\* "." components are dropped, and the name is the last component left
\* ("" when none is left)
RECURSIVE LastPart(_, _)
LastPart(s, slash) ==
    IF PySlice(s, slash + 1, Len(s)) \in {"", "."}
    THEN IF slash < 0 THEN ""
         ELSE LastPart(PySlice(s, 0, slash), RFind(PySlice(s, 0, slash), "/", slash))
    ELSE PySlice(s, slash + 1, Len(s))
PathName(url) == LastPart(url, RFind(url, "/", Len(url)))

\* pathlib's Path(url).suffix: the name from its last dot on, when that dot
\* is neither the first nor the last character of the name
PathSuffix(url) ==
    LET name == PathName(url)
        i == RFind(name, ".", Len(name))
    IN  IF 0 < i /\ i < Len(name) - 1 THEN PySlice(name, i, Len(name)) ELSE ""

\* colours.py:36-40: the file the url is downloaded to
DownloadPath(url) ==
    LET ext == PathSuffix(url)
    IN  HexDigest(MD5(url)) \o (IF ext = "" \/ Len(ext) > 6 THEN ".jpg" ELSE ext)

\* colours.py:23-31: p.mkdir raises, or the directory is there afterwards
_ensure_cache_dir(env) ==
    IF env.outcome = "mkdir_fails" THEN Raise("OSError", env.msg) ELSE Ok("cache/images")

\* colours.py:34-48.  The environment decides the download: requests.get or
\* raise_for_status raises before the file is opened, or iter_content raises
\* after open(out, "wb") created the file, or the whole body is written.
StreamTo(out, env, files) ==
    IF env.outcome = "get_fails"
    THEN [result |-> Raise("RequestException", env.msg), files |-> files]
    ELSE IF env.outcome = "stream_fails"
    THEN [result |-> Raise("RequestException", env.msg), files |-> files \cup {out}]
    ELSE [result |-> Ok(out), files |-> files \cup {out}]
_download_image(url, env, files) == StreamTo(DownloadPath(url), env, files)

\* colours.py:81  counted.sort(reverse=True, key=lambda x: x[0]): a stable sort,
\* entries of equal count keep their order
RECURSIVE InsertDesc(_, _)
InsertDesc(sorted, x) ==
    IF sorted = <<>> THEN <<x>>
    ELSE IF Head(sorted)[1] >= x[1] THEN <<Head(sorted)>> \o InsertDesc(Tail(sorted), x)
    ELSE <<x>> \o sorted
RECURSIVE SortDesc(_)
SortDesc(counted) ==
    IF counted = <<>> THEN <<>>
    ELSE InsertDesc(SortDesc(SubSeq(counted, 1, Len(counted) - 1)), counted[Len(counted)])

\* colours.py:86  near-white
NearWhite(rgb) == rgb[1] >= 245 /\ rgb[2] >= 245 /\ rgb[3] >= 245

\* colours.py:84-92: the walk over the sorted entries from the k-th on
RECURSIVE TopLoop(_, _, _)
TopLoop(counted, k, colours) ==
    IF k > Len(counted) THEN colours
    ELSE IF NearWhite(counted[k][2]) THEN TopLoop(counted, k + 1, colours)
    ELSE LET hexc == RgbHex(counted[k][2])
             next == IF hexc \notin Range(colours) THEN Append(colours, hexc) ELSE colours
         IN  IF Len(next) >= 4 THEN next ELSE TopLoop(counted, k + 1, next)

\* colours.py:97-101: the top-up from the fallback colours from the k-th on
RECURSIVE FallbackLoop(_, _, _)
FallbackLoop(fallback, k, colours) ==
    IF k > Len(fallback) THEN colours
    ELSE LET c == fallback[k]
             next == IF c \notin Range(colours) THEN Append(colours, c) ELSE colours
         IN  IF Len(next) >= 4 THEN next ELSE FallbackLoop(fallback, k + 1, next)

\* colours.py:106-116, given the md5 digest of the content
extract_top4_from_digest(digest) == DigestColours(digest)

\* colours.py:51-103.  The environment supplies what Pillow makes of the file:
\* Image.open raises, or the quantized entries env.counted, a list of
\* <<count, <<r, g, b>>>>; env.digest is the md5 of the file's bytes.
_extract_top4_from_file(env) ==
    IF env.outcome = "decode_fails" THEN Raise("UnidentifiedImageError", env.msg)
    ELSE LET colours == TopLoop(SortDesc(env.counted), 1, <<>>)
             topped == IF Len(colours) < 4
                       THEN FallbackLoop(extract_top4_from_digest(env.digest), 1, colours)
                       ELSE colours
         IN  Ok(PySlice(topped, 0, 4))

\* colours.py:132
IsUrl(s) == PySlice(s, 0, 7) = "http://" \/ PySlice(s, 0, 8) = "https://"

\* colours.py:152-159: the finally block; `downloaded` is the path or None.
\* The environment decides whether unlink removes the file or raises; the
\* except clause of line 157 swallows the failure, and the file stays.
Cleanup(downloaded, files, env) ==
    IF downloaded # None /\ downloaded \in files /\ env.unlink = "ok"
    THEN files \ {downloaded}
    ELSE files

\* colours.py:129-130  `if not source_identifier: source_identifier = ""`
OrEmpty(source_identifier) ==
    IF source_identifier = None \/ source_identifier = "" THEN "" ELSE source_identifier

\* colours.py:135-143: digest mode
DigestMode(id) == Ok(DigestColours(MD5(id)))

\* colours.py:147-159: the try/finally around the download dl and the extraction
ImageMode(dl, env) ==
    IF dl.result.kind # "ok"
    THEN [result |-> dl.result, files |-> Cleanup(None, dl.files, env)]
    ELSE [result |-> _extract_top4_from_file(env),
          files |-> Cleanup(dl.result.value, dl.files, env)]

\* colours.py:119-159: the call's outcome and the cache directory after it
extract_top4(source_identifier, env, files) ==
    IF ~IsUrl(OrEmpty(source_identifier))
    THEN [result |-> DigestMode(OrEmpty(source_identifier)), files |-> files]
    ELSE IF _ensure_cache_dir(env).kind # "ok"
    THEN [result |-> _ensure_cache_dir(env), files |-> files]
    ELSE ImageMode(_download_image(source_identifier, env, files), env)

(***************************************************************************)
(* The inputs of the extract_top4 calls checked.                           *)
(***************************************************************************)
Urls == {"https://a/b.png", "http://c"}
Identifiers == Urls \cup {"x", "", "HTTPS://A"}

\* palette entries Pillow may report: three colours, one just below the
\* near-white threshold and one on it
QuantRGB == {<<1, 2, 3>>, <<10, 11, 12>>, <<170, 187, 204>>,
             <<244, 255, 255>>, <<245, 245, 245>>}
\* pixel counts per entry: all equal, or rising with the palette index
Counted(rgbs, profile) ==
    [i \in 1..Len(rgbs) |-> <<IF profile = "flat" THEN 1 ELSE i, rgbs[i]>>]
QuantLists == UNION {[1..n -> QuantRGB] : n \in 0..MaxQuant}

\* md5 digests of image files: of a 1x1 white PNG with tEXt Comment=6019191,
\* whose first two 3-byte groups are equal; one with four different groups;
\* of the same PNG with tEXt Comment=635661, whose first group is the colour
\* <<244, 255, 255>> of QuantRGB
DigestTwoEqual == <<60, 180, 14, 60, 180, 14, 149, 205, 215, 10, 226, 193, 59, 166, 93, 7>>
DigestDistinct == <<157, 212, 228, 97, 38, 140, 128, 52, 245, 200, 86, 78, 21, 92, 103, 166>>
DigestLikeImage == <<244, 255, 255, 186, 60, 249, 81, 41, 89, 150, 239, 94, 161, 147, 201, 7>>
Digests == {DigestTwoEqual, DigestDistinct, DigestLikeImage}

\* what unlink does to the downloaded file
Unlinks == {"ok", "fails"}

\* the environment of a call: which step fails (or none), the text of the
\* exception that step raises, what Pillow reports, and what unlink does
NoEnv == [outcome |-> "unused", msg |-> "", counted |-> <<>>, digest |-> DigestDistinct,
          unlink |-> "ok"]
FailEnvs ==
    {[NoEnv EXCEPT !.outcome = "mkdir_fails", !.msg = "Permission denied"],
     [NoEnv EXCEPT !.outcome = "get_fails", !.msg = "404 Client Error"],
     [NoEnv EXCEPT !.outcome = "stream_fails", !.msg = "Connection broken"]} \cup
    {[NoEnv EXCEPT !.outcome = "decode_fails", !.msg = "cannot identify image file",
                   !.unlink = u] : u \in Unlinks}
ImageEnvs ==
    {[outcome |-> "ok", msg |-> "", counted |-> Counted(q, p), digest |-> d, unlink |-> u] :
        q \in QuantLists, p \in {"flat", "rising"}, d \in Digests, u \in Unlinks}
Envs == FailEnvs \cup ImageEnvs

(***************************************************************************)
(* The polling loop                                                        *)
(***************************************************************************)
MaxLoops == 5

\* poll_playback.py:92  generate_pattern(base, length=16, mode="repeat")
PATTERN_LENGTH == 16

\* the artwork a poll may observe: no artwork, an image url or another string
Arts == Urls \cup {"x"}

\* what the file system, the download and Pillow may do in a poll: each
\* failure, an image of four colours, a white image topped up from its
\* digest, and a white image whose digest repeats a colour
PollEnvs ==
    FailEnvs \cup
    {[outcome |-> "ok", msg |-> "",
      counted |-> Counted(<<<<1, 2, 3>>, <<10, 11, 12>>, <<170, 187, 204>>,
                            <<244, 255, 255>>>>, "rising"),
      digest |-> DigestDistinct, unlink |-> u] : u \in Unlinks} \cup
    {[outcome |-> "ok", msg |-> "", counted |-> Counted(<<<<245, 245, 245>>>>, "flat"),
      digest |-> d, unlink |-> "ok"] : d \in {DigestDistinct, DigestTwoEqual}}

\* what the write of cache/current_palette.json may do (poll_playback.py:
\* 101-116): the record is written; or mkdir or open raises and the file is
\* as it was; or open has truncated the file and json.dump raises
Writes == {"written", "open_fails", "dump_fails"}

\* the snapshot file after a write that broke off
Partial == "partial"

\* poll_playback.py:80  `if art:`
TruthyAlways(art) == TRUE
Truthy(art) == art # None /\ art # ""

\* poll_playback.py:88
NextRotationStuck(r) == (r + 1) % 3
NextRotation(r) == (r + 1) % 4

\* poll_playback.py:91  state.base[state.rotation:] + state.base[:state.rotation]
RotateBaseRight(b, r) == PySlice(b, Len(b) - r, Len(b)) \o PySlice(b, 0, Len(b) - r)
RotateBase(b, r) == PySlice(b, r, Len(b)) \o PySlice(b, 0, r)

\* poll_playback.py:81  `art != state.prev_art`
ArtChanged(art, prev) == art # prev

\* the environments of a cycle that observes `art`: those of PollEnvs when
\* line 83 is reached with a url, the one of NoEnv when nothing is downloaded
Consulted(art, prev) ==
    IF Truthy(art) /\ ArtChanged(art, prev) /\ IsUrl(art) THEN PollEnvs ELSE {NoEnv}

\* poll_playback.py:93  ",".join(pattern)
RECURSIVE Join(_, _)
Join(seq, sep) ==
    IF seq = <<>> THEN ""
    ELSE IF Len(seq) = 1 THEN seq[1]
    ELSE seq[1] \o sep \o Join(Tail(seq), sep)

\* poll_playback.py:96  f"(error extracting colours: {exc})"
ErrorLine(exc) == "(error extracting colours: " \o exc.msg \o ")"

\* poll_playback.py:92-96: the pattern gp generated from the rotated base b,
\* or the except clause when generate_pattern raised
Emitted(st, files, called_with, extractor, b, gp) ==
    [st |-> st, files |-> files, called_with |-> called_with, extractor |-> extractor,
     out_base |-> b,
     pattern |-> IF gp.kind = "ok" THEN gp.value ELSE None,
     pattern_str |-> IF gp.kind = "ok" THEN Join(gp.value, ",") ELSE ErrorLine(gp),
     error |-> gp.kind # "ok",
     exc |-> IF gp.kind = "ok" THEN None ELSE gp.kind]

\* poll_playback.py:90-93
Emit(st, files, called_with, extractor) ==
    Emitted(st, files, called_with, extractor, RotateBase(st.base, st.rotation),
            generate_pattern(RotateBase(st.base, st.rotation), PATTERN_LENGTH, "repeat"))

\* poll_playback.py:83 raised: the except clause of line 95 with the locals
\* `base` and `pattern` as lines 77-78 set them
Skipped(art, st, ex) ==
    [st |-> st, files |-> ex.files, called_with |-> art, extractor |-> ex.result,
     out_base |-> <<>>, pattern |-> None, pattern_str |-> ErrorLine(ex.result),
     error |-> TRUE, exc |-> ex.result.kind]

\* poll_playback.py:83-85 and 95-96: new artwork, ex the outcome of extract_top4
NewArtworkKeepsRotation(art, st, ex) ==
    IF ex.result.kind # "ok"
    THEN Skipped(art, st, ex)
    ELSE Emit([prev_art |-> art, rotation |-> st.rotation, base |-> ex.result.value],
              ex.files, art, ex.result)
NewArtworkSwallows(art, st, ex) ==
    IF ex.result.kind # "ok"
    THEN Emit(st, ex.files, art, ex.result)
    ELSE Emit([prev_art |-> art, rotation |-> 0, base |-> ex.result.value],
              ex.files, art, ex.result)
NewArtwork(art, st, ex) ==
    IF ex.result.kind # "ok"
    THEN Skipped(art, st, ex)
    ELSE Emit([prev_art |-> art, rotation |-> 0, base |-> ex.result.value],
              ex.files, art, ex.result)

\* poll_playback.py:76-96: the try block of one cycle.  The value is the
\* rotation state after it, the cache directory after it, what the extractor
\* was called with and returned (None and NotCalled when it was not called),
\* the locals `base`, `pattern` and `pattern_str`, whether the except clause
\* of line 95 ran and the exception `exc` it was entered with.
Tracker(art, env, st, files) ==
    IF ~Truthy(art)
    THEN [st |-> st, files |-> files, called_with |-> None, extractor |-> NotCalled,
          out_base |-> <<>>, pattern |-> None, pattern_str |-> None,
          error |-> FALSE, exc |-> None]
    ELSE IF ArtChanged(art, st.prev_art)
    THEN NewArtwork(art, st, extract_top4(art, env, files))
    ELSE Emit([st EXCEPT !.rotation = NextRotation(st.rotation)], files, None, NotCalled)

\* poll_playback.py:105-111: the record of the cycle (its timestamp left out)
Payload(art, t) ==
    [artwork |-> art, base |-> t.out_base, rotation |-> t.st.rotation, pattern |-> t.pattern]

\* poll_playback.py:101-116: cache/current_palette.json after the write w of
\* the record; the except clause of line 114 swallows a failure
WriteSnapshot(w, payload, old) ==
    IF w = "written" THEN payload
    ELSE IF w = "dump_fails" THEN Partial
    ELSE old

\* poll_playback.py:98-116: the printed line and the snapshot file after the
\* tracker step t and the write w
Cycle(art, t, w) ==
    /\ prev_art' = t.st.prev_art
    /\ rotation' = t.st.rotation
    /\ base' = t.st.base
    /\ cache' = t.files
    /\ obs' = [art |-> art, called_with |-> t.called_with, extractor |-> t.extractor,
               error |-> t.error, exc |-> t.exc,
               out_base |-> t.out_base, pattern |-> t.pattern,
               pattern_str |-> t.pattern_str, write |-> w,
               before |-> [no_art |-> ~Truthy(obs.art), prev_art |-> prev_art,
                           rotation |-> rotation, base |-> base]]
    /\ snapshot' = WriteSnapshot(w, Payload(art, t), snapshot)

\* poll_playback.py:42-45: no token is cached, return 2
NoCachedToken ==
    /\ pc = "start"
    /\ pc' = "returned_2"
    /\ UNCHANGED <<loops, prev_art, rotation, base, obs, snapshot, cache>>
    /\ UNCHANGED <<gp_vars, ex_vars>>

\* poll_playback.py:42-50: a token is cached; loops = 0 and the rotation
\* state is created
CachedToken ==
    /\ pc = "start"
    /\ pc' = "running"
    /\ loops' = 0
    /\ prev_art' = None /\ rotation' = 0 /\ base' = <<>>
    /\ UNCHANGED <<obs, snapshot, cache>>
    /\ UNCHANGED <<gp_vars, ex_vars>>

\* poll_playback.py:54-56: the cached token has expired, return 0
TokenExpired ==
    /\ pc = "running"
    /\ pc' = "returned_0"
    /\ UNCHANGED <<loops, prev_art, rotation, base, obs, snapshot, cache>>
    /\ UNCHANGED <<gp_vars, ex_vars>>

\* poll_playback.py:59-63: current_playback raises, return 1
PlaybackError ==
    /\ pc = "running"
    /\ pc' = "returned_1"
    /\ UNCHANGED <<loops, prev_art, rotation, base, obs, snapshot, cache>>
    /\ UNCHANGED <<gp_vars, ex_vars>>

\* poll_playback.py:52-127: one cycle of the loop that observes `art`: the
\* tracker step, the printed line, the snapshot, and the loop count.
Poll(art, env, w) ==
    /\ pc = "running"
    /\ Cycle(art, Tracker(art, env,
                          [prev_art |-> prev_art, rotation |-> rotation, base |-> base],
                          cache), w)
    /\ loops' = loops + 1
    /\ pc' = IF loops + 1 >= MaxLoops THEN "returned_0" ELSE "running"
    /\ UNCHANGED <<gp_vars, ex_vars>>

\* obs before the first cycle; obs.before is the rotation state as it was
\* when the last cycle began, and whether the cycle before it had no artwork
NoObs == [art |-> None, called_with |-> None, extractor |-> NotCalled, error |-> FALSE,
          exc |-> None, out_base |-> <<>>, pattern |-> None, pattern_str |-> None,
          write |-> None,
          before |-> [no_art |-> TRUE, prev_art |-> None, rotation |-> 0, base |-> <<>>]]

\* run_loop is entered: no rotation state yet, no cycle run, and neither the
\* image cache nor the snapshot file exists
Init ==
    /\ gp_colors = <<>> /\ gp_length = 0 /\ gp_mode = "repeat" /\ gp_result = NotCalled
    /\ ex_id = None /\ ex_env = NoEnv /\ ex_result = NotCalled
    /\ cache = {}
    /\ pc = "start" /\ loops = 0
    /\ prev_art = Unbound /\ rotation = Unbound /\ base = Unbound
    /\ obs = NoObs /\ snapshot = None

Next ==
    \/ NoCachedToken
    \/ CachedToken
    \/ TokenExpired
    \/ PlaybackError
    \/ \E art \in Arts \cup {None}, w \in Writes :
          \E env \in Consulted(art, prev_art) : Poll(art, env, w)

Spec == Init /\ [][Next]_vars

(***************************************************************************)
(* generate_pattern as a call: the inputs are drawn, the call is made.     *)
(***************************************************************************)
InitPattern ==
    /\ gp_colors \in Palettes /\ gp_length \in Lengths /\ gp_mode \in ModeInputs
    /\ gp_result = NotCalled
    /\ ex_id = None /\ ex_env = NoEnv /\ ex_result = NotCalled
    /\ cache = {}
    /\ pc = "call" /\ loops = 0
    /\ prev_art = None /\ rotation = 0 /\ base = <<>>
    /\ obs = NoObs /\ snapshot = None

CallGeneratePattern ==
    /\ pc = "call"
    /\ gp_result' = generate_pattern(gp_colors, gp_length, gp_mode)
    /\ pc' = "called"
    /\ UNCHANGED <<gp_colors, gp_length, gp_mode, ex_vars, cache>>
    /\ UNCHANGED <<loops, prev_art, rotation, base, obs, snapshot>>

NextPattern == CallGeneratePattern

SpecPattern == InitPattern /\ [][NextPattern]_vars

(***************************************************************************)
(* extract_top4 as a call: of a url on an empty cache directory and in any *)
(* environment; of another identifier in an environment where a download   *)
(* would fail, on a cache directory that is empty or holds the file an     *)
(* earlier, failed download left.                                          *)
(***************************************************************************)
StaleCaches == {{}} \cup {{DownloadPath(u)} : u \in Urls}

InitExtract ==
    /\ gp_colors = <<>> /\ gp_length = 0 /\ gp_mode = "repeat" /\ gp_result = NotCalled
    /\ \/ ex_id \in Urls /\ ex_env \in Envs
          /\ cache = {}
       \/ ex_id \in (Identifiers \cup {None}) \ Urls /\ ex_env \in {NoEnv} \cup FailEnvs
          /\ cache \in StaleCaches
    /\ ex_result = NotCalled
    /\ pc = "call" /\ loops = 0
    /\ prev_art = None /\ rotation = 0 /\ base = <<>>
    /\ obs = NoObs /\ snapshot = None

Returned(ex) == ex_result' = ex.result /\ cache' = ex.files

CallExtractTop4 ==
    /\ pc = "call"
    /\ Returned(extract_top4(ex_id, ex_env, cache))
    /\ pc' = "called"
    /\ UNCHANGED <<ex_id, ex_env, gp_vars>>
    /\ UNCHANGED <<loops, prev_art, rotation, base, obs, snapshot>>

NextExtract == CallExtractTop4

SpecExtract == InitExtract /\ [][NextExtract]_vars

(***************************************************************************)
(* Properties of generate_pattern, under SpecPattern.                      *)
(***************************************************************************)
Called == pc = "called"

\* the element the claims give position i (from 1) of a pattern of p
RepeatAt(p, i) == p[((i - 1) % 4) + 1]
MirrorAt(p, i) == <<p[1], p[2], p[3], p[4], p[4], p[3], p[2], p[1]>>[((i - 1) % 8) + 1]

\* C1: for a palette of 4 colours, any length L >= 0 and each of the modes
\* repeat, mirror and rotate, the call returns a sequence of exactly L elements.
C1_LengthContract ==
    (Called /\ Len(gp_colors) = 4 /\ gp_mode \in Modes)
        => (gp_result.kind = "ok" /\ Len(gp_result.value) = gp_length)

\* a mirror pattern cut inside its second cycle, and an empty one
C1_Witness ==
    /\ Called /\ Len(gp_colors) = 4 /\ gp_mode = "mirror"
    /\ gp_length = 13 /\ gp_result.kind = "ok" /\ Len(gp_result.value) = 13

\* C2: in mode repeat element i (from 0) of the pattern is p[i mod 4]; for
\* L = 8 the first four and the last four elements are both p.
C2_RepeatCorrect ==
    (Called /\ Len(gp_colors) = 4 /\ gp_mode = "repeat")
        => /\ gp_result.kind = "ok"
           /\ Len(gp_result.value) = gp_length
           /\ \A i \in DOMAIN gp_result.value : gp_result.value[i] = RepeatAt(gp_colors, i)
           /\ gp_length = 8 =>
                /\ SubSeq(gp_result.value, 1, 4) = gp_colors
                /\ SubSeq(gp_result.value, 5, 8) = gp_colors

C2_Witness ==
    /\ Called /\ gp_mode = "repeat" /\ gp_length = 8
    /\ gp_colors = <<"#010203", "#0A0B0C", "#AABBCC", "#112233">>
    /\ gp_result = Ok(gp_colors \o gp_colors)

\* C3: in mode mirror element i (from 0) of the pattern is cycle[i mod 8],
\* cycle = [A,B,C,D,D,C,B,A] for the palette [A,B,C,D].
C3_MirrorCorrect ==
    (Called /\ Len(gp_colors) = 4 /\ gp_mode = "mirror")
        => /\ gp_result.kind = "ok"
           /\ Len(gp_result.value) = gp_length
           /\ \A i \in DOMAIN gp_result.value : gp_result.value[i] = MirrorAt(gp_colors, i)

C3_Witness ==
    /\ Called /\ gp_mode = "mirror" /\ gp_length = 10
    /\ gp_colors = <<"#010203", "#0A0B0C", "#AABBCC", "#112233">>
    /\ gp_result = Ok(<<"#010203", "#0A0B0C", "#AABBCC", "#112233",
                        "#112233", "#AABBCC", "#0A0B0C", "#010203",
                        "#010203", "#0A0B0C">>)

\* C4: for a palette of 4 colours and any length, mode rotate returns the
\* sequence mode repeat returns.
C4_RotateIsRepeat ==
    (Called /\ Len(gp_colors) = 4 /\ gp_mode = "rotate")
        => gp_result = generate_pattern(gp_colors, gp_length, "repeat")

C4_Witness ==
    /\ Called /\ gp_mode = "rotate" /\ gp_length = 6
    /\ gp_colors = <<"#010203", "#0A0B0C", "#AABBCC", "#112233">>
    /\ gp_result = Ok(<<"#010203", "#0A0B0C", "#AABBCC", "#112233", "#010203", "#0A0B0C">>)

\* C5: a palette whose length is not 4 (empty, fewer than 4 or more than 4)
\* makes the call fail with an invalid-input error (ValueError) and produce
\* no sequence, for every length and mode.
C5_Not4Fails ==
    (Called /\ Len(gp_colors) # 4)
        => (gp_result.kind = "ValueError" /\ gp_result.value = <<>>)

(***************************************************************************)
(* Properties of extract_top4, under SpecExtract.                          *)
(***************************************************************************)

\* C6: an image-mode extraction that returns normally returns exactly 4
\* colours; with fewer than 4 after the digest top-up it fails instead.
C6_FourOrFailure ==
    (Called /\ ex_id \in Urls /\ ex_result.kind = "ok") => Len(ex_result.value) = 4

\* C7: after an image-mode call ends, by a return or by a failure at any
\* step, the file it downloaded to is not in the cache directory.
C7_NoArtifactRemains ==
    (Called /\ ex_id \in Urls) => DownloadPath(ex_id) \notin cache

(***************************************************************************)
(* Properties of the rotation tracker, under Spec.  obs describes the last *)
(* cycle of the loop and obs.before the state that cycle began in: what a  *)
(* cycle emits is its locals `base` and `pattern` (obs.out_base and        *)
(* obs.pattern), the line it prints (obs.pattern_str) and, when the write  *)
(* succeeded, the snapshot file.                                           *)
(***************************************************************************)
Polled == loops > 0
Created == pc \notin {"start", "returned_2"}

\* C8: a cycle whose artwork is not null and differs from prev_art (null on
\* the first cycle) calls the extractor on it and, with the palette the
\* extractor returns, sets base to that palette, rotation to 0 and prev_art
\* to the artwork.
C8_NewArtworkResets ==
    (Polled /\ obs.art # None /\ obs.art # obs.before.prev_art)
        => /\ obs.called_with = obs.art
           /\ obs.extractor # NotCalled
           /\ obs.extractor.kind = "ok" =>
                /\ base = obs.extractor.value
                /\ rotation = 0
                /\ prev_art = obs.art
           /\ (obs.extractor.kind = "ok" /\ ~IsUrl(obs.art)) =>
                base = DigestColours(MD5(obs.art))

\* artwork Y after cycles of X that had advanced the rotation to 2
C8_Witness ==
    /\ Polled /\ obs.art = "http://c" /\ obs.before.prev_art = "https://a/b.png"
    /\ obs.before.rotation = 2 /\ obs.extractor.kind = "ok"
    /\ rotation = 0 /\ prev_art = "http://c"
    /\ base = obs.extractor.value /\ Len(base) = 4 /\ base # obs.before.base

\* C9: a cycle whose artwork equals prev_art does not call the extractor,
\* leaves base and prev_art as they were and sets rotation to
\* (rotation + 1) mod 4; rotation is always one of 0, 1, 2, 3.
C9_SameArtworkAdvances ==
    /\ Created => rotation \in 0..3
    /\ (Polled /\ obs.art # None /\ obs.art = obs.before.prev_art)
        => /\ obs.called_with = None
           /\ obs.extractor = NotCalled
           /\ base = obs.before.base
           /\ prev_art = obs.before.prev_art
           /\ rotation = (obs.before.rotation + 1) % 4

\* the fifth cycle of one artwork: the rotation wraps from 3 to 0
C9_Witness ==
    /\ Polled /\ obs.art = "https://a/b.png" /\ obs.art = obs.before.prev_art
    /\ obs.extractor = NotCalled
    /\ obs.before.rotation = 3 /\ rotation = 0 /\ base = obs.before.base

\* C10: a cycle whose artwork is null leaves prev_art, base and rotation as
\* they were and emits no palette and no pattern; the cycle after it, with
\* the artwork prev_art holds, advances the rotation without an extraction.
C10_NullArtworkFrame ==
    /\ (Polled /\ obs.art = None)
        => /\ prev_art = obs.before.prev_art
           /\ base = obs.before.base
           /\ rotation = obs.before.rotation
           /\ obs.extractor = NotCalled
           /\ obs.out_base = <<>> /\ obs.pattern = None /\ obs.pattern_str = None
           /\ obs.write = "written" => (snapshot.base = <<>> /\ snapshot.pattern = None)
    /\ (Polled /\ obs.before.no_art /\ obs.art # None /\ obs.art = obs.before.prev_art)
        => /\ obs.extractor = NotCalled
           /\ base = obs.before.base
           /\ rotation = (obs.before.rotation + 1) % 4

\* a null cycle between two cycles of the same artwork
C10_Witness ==
    /\ loops > 2 /\ obs.before.no_art /\ obs.art = "https://a/b.png"
    /\ obs.before.prev_art = obs.art /\ obs.extractor = NotCalled
    /\ rotation = obs.before.rotation + 1 /\ obs.pattern # None

\* C11: a cycle with an artwork that ends without an error emits the base
\* rotated left by the rotation (base[rotation:] + base[:rotation]) and a
\* pattern of 16 elements, pattern[i] = base[(rotation + i) mod 4]; the
\* rotation leaves the stored base as it was.
C11_EmitsRotatedBase ==
    (Polled /\ obs.art # None /\ ~obs.error)
        => /\ Len(base) = 4
           /\ Len(obs.out_base) = 4
           /\ \A i \in 1..4 : obs.out_base[i] = base[((rotation + i - 1) % 4) + 1]
           /\ base = IF obs.called_with = None THEN obs.before.base
                     ELSE obs.extractor.value
           /\ Len(obs.pattern) = 16
           /\ \A i \in 1..16 : obs.pattern[i] = base[((rotation + i - 1) % 4) + 1]
           /\ obs.pattern_str = Join(obs.pattern, ",")
           /\ obs.write = "written"
                => snapshot = [artwork |-> obs.art, base |-> obs.out_base,
                               rotation |-> rotation, pattern |-> obs.pattern]

\* base [A,B,C,D] of four different colours at rotation 2 emits [C,D,A,B]
C11_Witness ==
    /\ Polled /\ obs.art # None /\ ~obs.error /\ rotation = 2
    /\ Cardinality(Range(base)) = 4
    /\ obs.out_base = <<base[3], base[4], base[1], base[2]>>
    /\ Len(obs.pattern) = 16 /\ obs.pattern[1] = base[3]
    /\ obs.write = "written" /\ snapshot.base = obs.out_base

(***************************************************************************)
(* Properties of the digest mode of extract_top4, under SpecExtract.       *)
(***************************************************************************)
HexDigitsUpper == {"0", "1", "2", "3", "4", "5", "6", "7", "8", "9",
                   "A", "B", "C", "D", "E", "F"}
IsColourHex(c) ==
    /\ Len(c) = 7
    /\ SubSeq(c, 1, 1) = "#"
    /\ \A i \in 2..7 : SubSeq(c, i, i) \in HexDigitsUpper

\* what colours.extract_top4 returns for the identifiers that are no urls
DigestPaletteOf(id) ==
    CASE id = "x" -> <<"#9DD4E4", "#61268C", "#8034F5", "#C8564E">>
      [] id = "" \/ id = None -> <<"#D41D8C", "#D98F00", "#B204E9", "#800998">>
      [] id = "HTTPS://A" -> <<"#52D17F", "#657E87", "#1A70F3", "#625731">>

\* C12: for an identifier that is empty or begins with neither "http://" nor
\* "https://" the call returns 4 colours, each "#" and six uppercase hex
\* digits, that are the same for the same identifier whatever the environment
\* and the cache directory are, and it changes neither the cache directory
\* nor the rotation state.
C12_DigestModeDeterministic ==
    [][(pc = "call" /\ ex_id \notin Urls)
        => /\ ex_result'.kind = "ok"
           /\ Len(ex_result'.value) = 4
           /\ \A i \in DOMAIN ex_result'.value : IsColourHex(ex_result'.value[i])
           /\ ex_result'.value = DigestPaletteOf(ex_id)
           /\ cache' = cache
           /\ UNCHANGED <<prev_art, rotation, base>>]_vars

\* the call of "x" where a download would fail and a stale file is cached
C12_Witness ==
    /\ Called /\ ex_id = "x" /\ ex_env.outcome = "get_fails" /\ cache # {}
    /\ ex_result = Ok(<<"#9DD4E4", "#61268C", "#8034F5", "#C8564E">>)

(***************************************************************************)
(* Failing cycles, under Spec.                                             *)
(***************************************************************************)
ExtractionFailed(o) == o.called_with # None /\ o.extractor.kind # "ok"

\* C13: when the extractor raises in a cycle with a changed artwork, nothing
\* in the rotation step catches it: the step ends there, and the exception
\* reaches the except clause of the polling loop as the extractor raised it;
\* the loop skips the cycle and goes on.
C13_FailurePropagates ==
    [][(loops' = loops + 1 /\ ExtractionFailed(obs'))
        => /\ obs'.error
           /\ obs'.exc = obs'.extractor.kind
           /\ obs'.pattern_str = "(error extracting colours: " \o obs'.extractor.msg \o ")"
           /\ obs'.out_base = <<>> /\ obs'.pattern = None
           /\ UNCHANGED <<prev_art, rotation, base>>
           /\ pc' = IF loops' >= MaxLoops THEN "returned_0" ELSE "running"]_vars

\* the download of artwork Y fails after cycles of artwork X
C13_Witness ==
    /\ Polled /\ obs.art = "http://c" /\ obs.called_with = "http://c"
    /\ obs.extractor = Raise("RequestException", "404 Client Error")
    /\ obs.exc = "RequestException"
    /\ obs.pattern_str = "(error extracting colours: 404 Client Error)"
    /\ obs.error /\ prev_art = "https://a/b.png" /\ rotation > 0 /\ pc = "running"

\* C14: a cycle in which extract_top4 raises leaves prev_art, base and
\* rotation as they were; and whenever prev_art is not null, base is the
\* 4-colour palette extracted for it.
C14_NeverHalfUpdated ==
    /\ (Polled /\ ExtractionFailed(obs))
        => /\ prev_art = obs.before.prev_art
           /\ base = obs.before.base
           /\ rotation = obs.before.rotation
    /\ (Created /\ prev_art # None)
        => /\ Len(base) = 4
           /\ ~IsUrl(prev_art) => base = DigestColours(MD5(prev_art))
           /\ (Polled /\ obs.called_with # None /\ obs.extractor.kind = "ok")
                => (prev_art = obs.called_with /\ base = obs.extractor.value)

====
